---- MODULE Spec2Model ----
(***************************************************************************)
(* Toolchain alias resolution and command dispatch of mx_sulong.py:        *)
(* the registry _toolchains, ToolchainConfig.__init__, _toolchain_helper,  *)
(* get_toolchain_tool, get_launcher_configs and _get_toolchain.            *)
(*                                                                         *)
(* A Python dict is a sequence of <<key, value>> pairs in insertion order  *)
(* (keys unique).  Strings are TLA+ strings; a name template is a sequence *)
(* of pieces in which the piece "{name}" is the str.format placeholder.    *)
(***************************************************************************)
EXTENDS Integers, Sequences, FiniteSets, TLC

VARIABLES
    is_windows,      \* mx.is_windows(): the platform, fixed for a run
    env_bootstrap,   \* SULONG_BOOTSTRAP_STANDALONE ("" when unset)
    jacoco,          \* mx_gate._jacoco
    objects,         \* every ToolchainConfig constructed so far, in order
    toolchains,      \* _toolchains: name -> index into objects
    commands,        \* mx command table: command name -> index of the bound self
    substitutions,   \* mx_subst.path_substitutions no-arg entries -> index of provider's owner
    configs_seen,    \* per object, what its first get_launcher_configs call returned
    roots_seen,      \* per object, what its bootstrap-root provider returned first
    last             \* the operation in progress, its inputs and its outcome

vars == <<is_windows, env_bootstrap, jacoco, objects,
          toolchains, commands, substitutions, configs_seen, roots_seen, last>>

----------------------------------------------------------------------------
(* Bounds of the model *)

\* constructions of ToolchainConfig in the registration runs (RegistrySpec)
MaxObjects == 2

----------------------------------------------------------------------------
(* Dict helpers *)

Keys(d) == {d[i][1] : i \in DOMAIN d}

Get(d, k) == d[CHOOSE i \in DOMAIN d : d[i][1] = k][2]

KeySeq(d) == [i \in DOMAIN d |-> d[i][1]]

Range(s) == {s[i] : i \in DOMAIN s}

RECURSIVE Flatten(_)
Flatten(ss) == IF ss = <<>> THEN <<>> ELSE Head(ss) \o Flatten(Tail(ss))

----------------------------------------------------------------------------
(* String helpers *)

EndsWith(s, suf) ==
    Len(s) >= Len(suf) /\ SubSeq(s, Len(s) - Len(suf) + 1, Len(s)) = suf

StartsWith(s, pre) == Len(s) >= Len(pre) /\ SubSeq(s, 1, Len(pre)) = pre

RECURSIVE ConcatAll(_)
ConcatAll(pieces) ==
    IF pieces = <<>> THEN "" ELSE Head(pieces) \o ConcatAll(Tail(pieces))

\* alias.format(name=name)
Format(templ, name) ==
    ConcatAll([i \in DOMAIN templ |-> IF templ[i] = "{name}" THEN name ELSE templ[i]])

IsSpace(c) == c \in {" ", "\n", "\t", "\r"}

RECURSIVE LStrip(_)
LStrip(s) ==
    IF Len(s) > 0 /\ IsSpace(SubSeq(s, 1, 1)) THEN LStrip(SubSeq(s, 2, Len(s))) ELSE s

RECURSIVE RStrip(_)
RStrip(s) ==
    IF Len(s) > 0 /\ IsSpace(SubSeq(s, Len(s), Len(s)))
    THEN RStrip(SubSeq(s, 1, Len(s) - 1)) ELSE s

\* str.strip()
Strip(s) == LStrip(RStrip(s))

\* str.lower() on the binary-utility tool names
LowerTable ==
    << <<"AR", "ar">>, <<"NM", "nm">>, <<"OBJCOPY", "objcopy">>, <<"OBJDUMP", "objdump">>,
       <<"RANLIB", "ranlib">>, <<"READELF", "readelf">>, <<"READOBJ", "readobj">>,
       <<"STRIP", "strip">> >>

Lower(s) == IF s \in Keys(LowerTable) THEN Get(LowerTable, s) ELSE s

Upper(s) ==
    IF \E i \in DOMAIN LowerTable : LowerTable[i][2] = s
    THEN LowerTable[CHOOSE i \in DOMAIN LowerTable : LowerTable[i][2] = s][1]
    ELSE s

----------------------------------------------------------------------------
(* Platform helpers (mx / os.path) *)

exe_suffix(program) == IF is_windows THEN program \o ".exe" ELSE program

cmd_suffix(program) == IF is_windows THEN program \o ".cmd" ELSE program

\* mx_subst.path_substitutions.substitute("<exe:program>")
_exe_sub(program) == exe_suffix(program)

\* mx_subst.path_substitutions.substitute("<cmd:program>")
_cmd_sub(program) == cmd_suffix(program)

os_sep == IF is_windows THEN "\\" ELSE "/"

\* os.path.join(a, b) for a relative b
Join2(a, b) == IF a = "" THEN b ELSE IF EndsWith(a, os_sep) THEN a \o b ELSE a \o os_sep \o b

Join3(a, b, c) == Join2(Join2(a, b), c)

\* mx.distribution(dist).get_output() / .output
DistOutput(dist) == Join2("mxbuild", dist)

----------------------------------------------------------------------------
(* ToolchainConfig class attributes *)

_llvm_tool_map == <<"ar", "nm", "objcopy", "objdump", "ranlib", "readelf", "readobj", "strip">>

_tool_map ==
    << <<"CC", << <<"graalvm-", "{name}", "-clang">>, <<"graalvm-clang">>, <<"clang">>,
                  <<"cc">>, <<"gcc">> >> >>,
       <<"CXX", << <<"graalvm-", "{name}", "-clang++">>, <<"graalvm-clang++">>, <<"clang++">>,
                   <<"c++">>, <<"g++">> >> >>,
       <<"CL", << <<"graalvm-", "{name}", "-clang-cl">>, <<"graalvm-clang-cl">>,
                  <<"clang-cl">>, <<"cl">> >> >>,
       <<"LD", << <<"graalvm-", "{name}", "-ld">>, <<"ld">>, <<"ld.lld">>, <<"lld">>,
                  <<"lld-link">>, <<"ld64">> >> >>,
       <<"FC", << <<"graalvm-", "{name}", "-flang">>, <<"graalvm-flang">>, <<"flang-new">>,
                  <<"flang">> >> >>,
       <<"BINUTIL", << <<"graalvm-", "{name}", "-binutil">> >>
                    \o [i \in DOMAIN _llvm_tool_map |-> <<_llvm_tool_map[i]>>]
                    \o [i \in DOMAIN _llvm_tool_map |-> <<"llvm-" \o _llvm_tool_map[i]>>] >> >>

----------------------------------------------------------------------------
(* ToolchainConfig.__init__: the fields of the constructed object *)

\* (mutant) every entry of a role formatted from the role's first template
ToolMapOf_FirstTemplate(name, templ) ==
    [i \in DOMAIN templ |->
        <<templ[i][1],
          [j \in DOMAIN templ[i][2] |-> _exe_sub(Format(templ[i][2][1], name))]>>]

\* self.tool_map: every template formatted with the name, then suffixed
ToolMapOf(name, templ) ==
    [i \in DOMAIN templ |->
        <<templ[i][1],
          [j \in DOMAIN templ[i][2] |-> _exe_sub(Format(templ[i][2][j], name))]>>]

\* the (key, value) pairs the path_map comprehension produces, in order
PathItems(tool_map) ==
    Flatten([i \in DOMAIN tool_map |->
        [j \in DOMAIN tool_map[i][2] |-> <<_exe_sub(tool_map[i][2][j]), tool_map[i][1]>>]])

\* a dict comprehension keeps the value of the last pair with a given key
DictOfItems(items) ==
    [k \in {items[i][1] : i \in DOMAIN items} |->
        LET idx == {i \in DOMAIN items : items[i][1] = k}
            lastIdx == CHOOSE i \in idx : \A j \in idx : j <= i
        IN items[lastIdx][2]]

\* self.path_map
PathMapOf(tool_map) == DictOfItems(PathItems(tool_map))

NewToolchainConfig(name, dist, bootstrap_dist, tools, tool_map_templ, select_flags) ==
    LET tm == ToolMapOf(name, IF tool_map_templ = <<>> THEN _tool_map ELSE tool_map_templ)
    IN [name |-> name,
        dist |-> IF dist.is_list THEN dist.val ELSE <<dist.val>>,
        bootstrap_dist |-> bootstrap_dist,
        tools |-> tools,
        llvm_binutil_tools |-> [i \in DOMAIN _llvm_tool_map |-> Upper(_llvm_tool_map[i])],
        select_flags |-> select_flags,
        mx_command |-> name \o "-toolchain",
        tool_map |-> tm,
        path_map |-> PathMapOf(tm)]

\* mx.update_commands / register_no_arg: d[k] = v
DictPut(d, k, v) == (k :> v) @@ d

\* (mutant) the registry write without the duplicate check
RegistryAfter_Overwrite(tc, name, n) == DictPut(tc, name, n)

\* lines 477-479: the duplicate check and the registry write

RegistryAfter(tc, name, n) == IF name \in DOMAIN tc THEN tc ELSE DictPut(tc, name, n)

----------------------------------------------------------------------------
(* Inputs of the model: the descriptors that get registered *)

Names == {"native", "managed"}

NativeTools ==
    << <<"CC", "com.oracle.truffle.llvm.toolchain.launchers.Clang">>,
       <<"CXX", "com.oracle.truffle.llvm.toolchain.launchers.ClangXX">>,
       <<"CL", "com.oracle.truffle.llvm.toolchain.launchers.ClangCL">>,
       <<"FC", "com.oracle.truffle.llvm.toolchain.launchers.Flang">>,
       <<"LD", "com.oracle.truffle.llvm.toolchain.launchers.Linker">>,
       <<"BINUTIL", "com.oracle.truffle.llvm.toolchain.launchers.BinUtil">> >>

CcCxxTools == SubSeq(NativeTools, 1, 2)

CcArTools == << NativeTools[1], <<"AR", "com.oracle.truffle.llvm.toolchain.launchers.BinUtil">> >>

CcStripTools ==
    << NativeTools[1], <<"STRIP", "com.oracle.truffle.llvm.toolchain.launchers.BinUtil">> >>

\* an overriding alias-template table in which two roles share an alias and
\* one role lists an alias twice
SharedAliasTempl ==
    << <<"CC", << <<"{name}", "-cc">>, <<"cc">> >> >>,
       <<"CXX", << <<"{name}", "-cc">>, <<"c++">>, <<"{name}", "-cc">> >> >> >>

\* an overriding alias-template table that gives a binary-utility name a role entry
ArTempl ==
    << <<"CC", << <<"graalvm-", "{name}", "-clang">>, <<"clang">> >> >>,
       <<"AR", << <<"graalvm-", "{name}", "-ar">>, <<"ar">> >> >> >>

LaunchersDist == [is_list |-> FALSE, val |-> "SULONG_TOOLCHAIN_LAUNCHERS"]

ManagedDist == [is_list |-> TRUE, val |-> <<"sulong-managed:SULONG_MANAGED_LAUNCHERS", "SULONG_TOOLCHAIN_LAUNCHERS">>]

\* tool_map_templ = <<>> stands for None
Configs ==
    { [dist |-> LaunchersDist, tools |-> NativeTools, templ |-> <<>>, flags |-> <<>>],
      [dist |-> ManagedDist, tools |-> CcCxxTools, templ |-> <<>>, flags |-> <<"--llvm.managed">>],
      [dist |-> LaunchersDist, tools |-> CcCxxTools, templ |-> SharedAliasTempl, flags |-> <<>>],
      [dist |-> LaunchersDist, tools |-> CcArTools, templ |-> ArTempl, flags |-> <<>>],
      [dist |-> LaunchersDist, tools |-> CcStripTools, templ |-> <<>>, flags |-> <<>>] }

BootstrapDist == "sulong:SULONG_BOOTSTRAP_TOOLCHAIN"

NativeConfig ==
    [dist |-> LaunchersDist, tools |-> NativeTools, templ |-> <<>>, flags |-> <<>>]

\* the (name, configuration) pairs a run registers
Registrations ==
    {r \in [name : Names, cfg : Configs] :
        \/ r.name = "native" /\ r.cfg.dist = LaunchersDist /\ r.cfg.tools # CcArTools
        \/ r.name = "managed" /\ (r.cfg.dist = ManagedDist \/ r.cfg.tools = CcArTools)}

----------------------------------------------------------------------------
(* The record of the last operation *)

\* templ: the tool_map_templ argument of a registration (<<>> for None);
\* lli_exists / ret_exists: what os.path.exists answered, "unread" when it was not called
\* repeat: get_launcher_configs was called on the object before this call
NoCall ==
    [op |-> "none", self |-> 0, name |-> "", templ |-> <<>>, tool |-> "",
     allow_bootstrap |-> FALSE,
     mode |-> "None", env_jacoco |-> <<>>, argv |-> <<>>,
     lli_exists |-> "unread", ret_exists |-> "unread",
     status |-> "ok", ret |-> "", msg |-> "", runs |-> <<>>, provider_calls |-> 0,
     command |-> "", rc |-> 0, choices |-> <<>>, configs |-> <<>>, repeat |-> FALSE,
     jacoco_writes |-> <<>>]

----------------------------------------------------------------------------
(* ToolchainConfig(name, dist, bootstrap_dist, tools, suite, tool_map_templ, select_flags) *)

Register(name, cfg) ==
    /\ LET self == NewToolchainConfig(name, cfg.dist, BootstrapDist, cfg.tools, cfg.templ, cfg.flags)
           n == Len(objects) + 1
       IN /\ objects' = Append(objects, self)
          /\ commands' = DictPut(commands, self.mx_command, n)
          /\ substitutions' = DictPut(substitutions, name \o "ToolchainRoot", n)
          /\ toolchains' = RegistryAfter(toolchains, name, n)
          /\ last' = [NoCall EXCEPT !.op = "register", !.self = n, !.name = name,
                        !.templ = cfg.templ,
                        !.status = IF name \in DOMAIN toolchains THEN "abort" ELSE "ok",
                        !.msg = IF name \in DOMAIN toolchains
                                THEN "Toolchain '" \o name \o "' registered twice" ELSE ""]
    /\ UNCHANGED <<is_windows, env_bootstrap, jacoco, configs_seen, roots_seen>>

----------------------------------------------------------------------------
(* _get_toolchain(toolchain_name) *)

LookupNames == Names \cup {"default"}

_get_toolchain(toolchain_name) ==
    /\ last' = IF toolchain_name \notin DOMAIN toolchains
               THEN [NoCall EXCEPT !.op = "_get_toolchain", !.name = toolchain_name,
                        !.status = "abort",
                        !.msg = "Toolchain '" \o toolchain_name \o "' does not exists!"]
               ELSE [NoCall EXCEPT !.op = "_get_toolchain", !.name = toolchain_name,
                        !.self = toolchains[toolchain_name]]
    /\ UNCHANGED <<is_windows, env_bootstrap, jacoco, objects,
                   toolchains, commands, substitutions, configs_seen, roots_seen>>

----------------------------------------------------------------------------
(* Role lookups of a ToolchainConfig; a result is [status, val] *)

Ok(v) == [status |-> "ok", val |-> v]

Fail(kind, m) == [status |-> kind, val |-> m]

UnsupportedMsg(self, tool) ==
    "The " \o self.name \o " toolchain (defined by " \o self.dist[1]
        \o ") does not support tool '" \o tool \o "'"

\* (mutant) the roles in reverse definition order
_supported_tools_Reversed(self) ==
    [i \in DOMAIN self.tools |-> self.tools[Len(self.tools) + 1 - i][1]]

_supported_tools(self) == KeySeq(self.tools)

_check_tool(self, tool) ==
    IF tool \notin Range(_supported_tools(self))
    THEN Fail("abort", UnsupportedMsg(self, tool)) ELSE Ok("")

_tool_to_aliases(self, tool) ==
    IF _check_tool(self, tool).status # "ok" THEN _check_tool(self, tool)
    ELSE IF tool \notin Keys(self.tool_map) THEN Fail("KeyError", tool)
    ELSE Ok(Get(self.tool_map, tool))

_tool_to_bin(self, tool) ==
    LET aliases == _tool_to_aliases(self, tool)
    IN IF aliases.status # "ok" THEN aliases
       ELSE IF aliases.val = <<>> THEN Fail("IndexError", tool)
       ELSE Ok(aliases.val[1])

_tool_to_main(self, tool) ==
    IF _check_tool(self, tool).status # "ok" THEN _check_tool(self, tool)
    ELSE Ok(Get(self.tools, tool))

----------------------------------------------------------------------------
(* create_toolchain_root_provider(name, dist): the provider called now *)

\* (mutant) the root is that of the bootstrap distribution, whatever the environment
bootstrap_provider_Frozen(self) == DistOutput(self.bootstrap_dist)

bootstrap_provider(self) ==
    IF env_bootstrap # ""
    THEN Join2(Join3(env_bootstrap, "lib", "sulong"), self.name)
    ELSE DistOutput(self.bootstrap_dist)

----------------------------------------------------------------------------
(* get_lli_path(fatalIfMissing=False); "" stands for None *)

Modes == {"None", "jvm", "native"}

get_lli_path(mode, has_managed, graalvm_home) ==
    IF mode = "None"
    THEN IF graalvm_home = "" THEN "" ELSE Join3(graalvm_home, "bin", _cmd_sub("lli"))
    ELSE LET useJvm == mode = "jvm"
             dist == IF has_managed
                     THEN IF useJvm THEN "SULONG_MANAGED_JVM_STANDALONE"
                                    ELSE "SULONG_MANAGED_NATIVE_STANDALONE"
                     ELSE IF useJvm THEN "SULONG_JVM_STANDALONE"
                                    ELSE "SULONG_NATIVE_STANDALONE"
         IN Join3(DistOutput(dist), "bin", _exe_sub("lli"))

----------------------------------------------------------------------------
(* ToolchainConfig.get_toolchain_tool(tool, allow_bootstrap)                *)
(* in: what the environment answers ([mode, has_managed, lli_exists,        *)
(* ret_exists, run]); the result is the part of `last` the call determines. *)

YesNo(b) == IF b THEN "yes" ELSE "no"

\* (mutant) the path is returned as computed, whatever the file system holds
CmdFallback_Never(ret, ret_exists) == ret

\* lines 531-533: a missing .exe of a bootstrap toolchain is replaced by .cmd
CmdFallback(ret, ret_exists) ==
    IF is_windows /\ EndsWith(ret, ".exe") /\ ~ret_exists
    THEN SubSeq(ret, 1, Len(ret) - 4) \o ".cmd" ELSE ret

\* lines 529-534: a role of the role map
Tier2Role(self, tool, ret_exists) ==
    LET root == bootstrap_provider(self)
        bin == _tool_to_bin(self, tool)
        ret == Join3(root, "bin", bin.val)
    IN IF bin.status # "ok"
       THEN [status |-> bin.status, ret |-> "", msg |-> bin.val,
             provider_calls |-> 1, ret_exists |-> "unread"]
       ELSE [status |-> "ok", ret |-> CmdFallback(ret, ret_exists), msg |-> "",
             provider_calls |-> 1,
             ret_exists |-> IF is_windows /\ EndsWith(ret, ".exe")
                            THEN YesNo(ret_exists) ELSE "unread"]

\* lines 535-536: a binary-utility sub-tool outside the role map
Tier2Binutil(self, tool) ==
    [status |-> "ok", ret |-> Join3(bootstrap_provider(self), "bin", _cmd_sub(Lower(tool))),
     msg |-> "", provider_calls |-> 1, ret_exists |-> "unread"]

\* (mutant) any other role is looked up like a binary-utility sub-tool
Tier2Unsupported_AsBinutil(self, tool) ==
    [status |-> "ok", ret |-> Join3(bootstrap_provider(self), "bin", _cmd_sub(Lower(tool))),
     msg |-> "", provider_calls |-> 1, ret_exists |-> "unread"]

\* lines 537-538: any other role
Tier2Unsupported(self, tool) ==
    [status |-> "abort", ret |-> "", msg |-> UnsupportedMsg(self, tool),
     provider_calls |-> 0, ret_exists |-> "unread"]

\* (mutant) the binary-utility names are tried before the role map
Tier2_BinutilFirst(self, tool, ret_exists) ==
    IF tool \in Range(self.llvm_binutil_tools) THEN Tier2Binutil(self, tool)
    ELSE IF tool \in Range(_supported_tools(self)) THEN Tier2Role(self, tool, ret_exists)
    ELSE Tier2Unsupported(self, tool)

\* lines 528-538: the bootstrap toolchain
Tier2(self, tool, ret_exists) ==
    IF tool \in Range(_supported_tools(self)) THEN Tier2Role(self, tool, ret_exists)
    ELSE IF tool \in Range(self.llvm_binutil_tools) THEN Tier2Binutil(self, tool)
    ELSE Tier2Unsupported(self, tool)

\* (mutant) the fallback is taken whatever allow_bootstrap is
AbortsWithoutStandalone_Never(allow_bootstrap) == FALSE

\* line 525: no fallback unless the caller allows it
AbortsWithoutStandalone(allow_bootstrap) == ~allow_bootstrap

GetToolchainToolResult(self, tool, allow_bootstrap, in) ==
    LET base == [NoCall EXCEPT !.op = "get_toolchain_tool", !.tool = tool,
                    !.allow_bootstrap = allow_bootstrap, !.mode = in.mode]
        lli_path == get_lli_path(in.mode, in.has_managed, "")
        t2 == Tier2(self, tool, in.ret_exists)
        tier2 == [base EXCEPT !.status = t2.status, !.ret = t2.ret, !.msg = t2.msg,
                     !.provider_calls = t2.provider_calls, !.ret_exists = t2.ret_exists]
    IN IF in.mode # "None"
       THEN IF lli_path # "" /\ in.lli_exists
            THEN LET cmd == <<lli_path>> \o self.select_flags
                               \o <<"--print-toolchain-api-tool", tool>>
                     run == [cmd |-> cmd, rc |-> in.run.rc, out |-> in.run.out]
                 IN IF in.run.rc # 0
                    THEN [base EXCEPT !.lli_exists = "yes", !.runs = <<run>>,
                             !.status = "abort", !.msg = "non-zero exit"]
                    ELSE [base EXCEPT !.lli_exists = "yes", !.runs = <<run>>,
                             !.ret = Strip(in.run.out)]
            ELSE IF AbortsWithoutStandalone(allow_bootstrap)
            THEN [base EXCEPT !.lli_exists = "no", !.status = "abort",
                     !.msg = "Could not query toolchain tool " \o tool
                             \o " from the standalone. Maybe the standalone isn't built yet?"]
            ELSE [tier2 EXCEPT !.lli_exists = "no"]
       ELSE tier2

RunOutcomes ==
    { [rc |-> 1, out |-> ""], [rc |-> 0, out |-> ""], [rc |-> 0, out |-> " \n"],
      [rc |-> 0, out |-> " standalone/bin/tool\n"] }

ToolInputs ==
    [mode : Modes, has_managed : BOOLEAN, lli_exists : BOOLEAN, ret_exists : BOOLEAN,
     run : RunOutcomes]

ToolArgs ==
    Keys(_tool_map) \cup {Upper(_llvm_tool_map[i]) : i \in DOMAIN _llvm_tool_map} \cup {"XX"}

get_toolchain_tool(n, tool, allow_bootstrap, in) ==
    /\ n \in DOMAIN objects
    /\ LET res == GetToolchainToolResult(objects[n], tool, allow_bootstrap, in)
       IN /\ last' = [res EXCEPT !.self = n]
          /\ roots_seen' =
                IF res.provider_calls = 0 \/ n \in DOMAIN roots_seen THEN roots_seen
                ELSE DictPut(roots_seen, n, bootstrap_provider(objects[n]))
    /\ UNCHANGED <<is_windows, env_bootstrap, jacoco, objects,
                   toolchains, commands, substitutions, configs_seen>>

----------------------------------------------------------------------------
(* ToolchainConfig._toolchain_helper(args): the mx command <name>-toolchain *)

RECURSIVE CollectAliases(_, _)
CollectAliases(self, toolSeq) ==
    IF toolSeq = <<>> THEN Ok(<<>>)
    ELSE LET first == _tool_to_aliases(self, Head(toolSeq))
             rest == CollectAliases(self, Tail(toolSeq))
         IN IF first.status # "ok" THEN first
            ELSE IF rest.status # "ok" THEN rest
            ELSE Ok(first.val \o rest.val)

_supported_tool_names(self) == CollectAliases(self, _supported_tools(self))

IsOption(a) == StartsWith(a, "-")

\* (mutant) the command stays among the forwarded arguments
ParseKnownArgs_KeepCommand(args) ==
    LET pos == {i \in DOMAIN args : ~IsOption(args[i])}
        first == CHOOSE i \in pos : \A j \in pos : i <= j
    IN IF pos = {} THEN [found |-> FALSE, command |-> "", tool_args |-> args]
       ELSE [found |-> TRUE, command |-> args[first], tool_args |-> args]

\* ArgumentParser.parse_known_args with the one positional <command>:
\* the first argument that is not an option string is the command, the rest are
\* extras (argument lists without "--")
ParseKnownArgs(args) ==
    LET pos == {i \in DOMAIN args : ~IsOption(args[i])}
        first == CHOOSE i \in pos : \A j \in pos : i <= j
    IN IF pos = {} THEN [found |-> FALSE, command |-> "", tool_args |-> args]
       ELSE [found |-> TRUE, command |-> args[first],
             tool_args |-> SubSeq(args, 1, first - 1) \o SubSeq(args, first + 1, Len(args))]

\* mx.splitqualname(name)[1]
RECURSIVE ColonAt(_, _)
ColonAt(name, i) ==
    IF i > Len(name) THEN 0
    ELSE IF SubSeq(name, i, i) = ":" THEN i ELSE ColonAt(name, i + 1)

SplitQualName2(name) ==
    IF ColonAt(name, 1) = 0 THEN name ELSE SubSeq(name, ColonAt(name, 1) + 1, Len(name))

\* mx.get_runtime_jvm_args(names): one classpath entry per distribution
get_runtime_jvm_args(names) == <<"-cp">> \o names

\* (mutant) the coverage state is written after the process was spawned
JacocoAtSpawn_WriteAfter(env_jacoco) == jacoco

\* lines 488-490: mx_gate._jacoco as the spawned process finds it
JacocoAtSpawn(env_jacoco) == IF env_jacoco # <<>> THEN env_jacoco[1] ELSE jacoco

DispatchResult(self, args, env_jacoco, rc) ==
    LET base == [NoCall EXCEPT !.op = "dispatch", !.argv = args, !.env_jacoco = env_jacoco]
        choices == _supported_tool_names(self)
        parsed == ParseKnownArgs(args)
        role == self.path_map[parsed.command]
        main == _tool_to_main(self, role)
        cmd == get_runtime_jvm_args([i \in DOMAIN self.dist |-> SplitQualName2(self.dist[i])])
                 \o <<"-Dorg.graalvm.launcher.executablename=" \o parsed.command>>
                 \o <<main.val>> \o parsed.tool_args
    IN IF choices.status # "ok"
       THEN [base EXCEPT !.status = choices.status, !.msg = choices.val]
       ELSE IF ~parsed.found
       THEN [base EXCEPT !.status = "usage", !.rc = 2, !.choices = choices.val,
                !.msg = "the following arguments are required: <command>"]
       ELSE IF parsed.command \notin Range(choices.val)
       THEN [base EXCEPT !.status = "usage", !.rc = 2, !.choices = choices.val,
                !.command = parsed.command, !.msg = "invalid choice"]
       ELSE IF parsed.command \notin DOMAIN self.path_map
       THEN [base EXCEPT !.status = "KeyError", !.choices = choices.val,
                !.command = parsed.command, !.msg = parsed.command]
       ELSE IF main.status # "ok"
       THEN [base EXCEPT !.status = main.status, !.choices = choices.val,
                !.command = parsed.command, !.msg = main.val]
       ELSE [base EXCEPT !.status = IF rc # 0 THEN "abort" ELSE "ok", !.rc = rc,
                !.choices = choices.val, !.command = parsed.command,
                !.jacoco_writes = env_jacoco,
                !.runs = <<[cmd |-> cmd, rc |-> rc, out |-> "",
                            jacoco |-> JacocoAtSpawn(env_jacoco)]>>]

_toolchain_helper(n, args, env_jacoco, rc) ==
    /\ n \in DOMAIN objects
    /\ LET res == DispatchResult(objects[n], args, env_jacoco, rc)
       IN /\ last' = [res EXCEPT !.self = n]
          /\ jacoco' = IF res.jacoco_writes # <<>> THEN res.jacoco_writes[1] ELSE jacoco
    /\ UNCHANGED <<is_windows, env_bootstrap, objects, toolchains, commands, substitutions,
                   configs_seen, roots_seen>>

AllAliases(self) == UNION {Range(self.tool_map[i][2]) : i \in DOMAIN self.tool_map}

\* the command names a run tries on a descriptor
CommandNames(self) ==
    AllAliases(self) \cup DOMAIN self.path_map \cup {"clang", "graalvm-clang", "no-such-tool"}

DispatchArgs(self) ==
    {<<>>, <<"-v">>}
      \cup {<<c>> : c \in CommandNames(self)}
      \cup {<<c, "-v">> : c \in CommandNames(self)}
      \cup {<<"-v", c>> : c \in {"clang", "clang.exe"}}

\* os.environ: JACOCO unset, set to the empty string, set to a value
JacocoEnvValues == {<<>>, <<"">>, <<"jacoco-agent">>}

ExitCodes == {0, 1}

----------------------------------------------------------------------------
(* ToolchainConfig.get_launcher_configs() *)

SuiteName == "sulong"

_get_jar_dists(self) ==
    [i \in DOMAIN self.dist |->
        IF ColonAt(self.dist[i], 1) # 0 THEN self.dist[i] ELSE SuiteName \o ":" \o self.dist[i]]

\* mx_sdk_vm_impl.svm_experimental_options(flags)
svm_experimental_options(flags) ==
    <<"-H:+UnlockExperimentalVMOptions">> \o flags \o <<"-H:-UnlockExperimentalVMOptions">>

\* (mutant) every alias of the role is linked, the primary one included
LauncherConfig_AllAliasLinks(self, tool) ==
    [destination |-> Join3(self.name, "bin", _tool_to_bin(self, tool).val),
     jar_distributions |-> _get_jar_dists(self),
     main_class |-> _tool_to_main(self, tool).val,
     build_args |-> <<"--initialize-at-build-time=com.oracle.truffle.llvm.toolchain.launchers",
                      "--gc=epsilon">> \o svm_experimental_options(<<"-H:-ParseRuntimeOptions">>),
     is_main_launcher |-> FALSE,
     default_symlinks |-> FALSE,
     links |-> LET aliases == _tool_to_aliases(self, tool).val
               IN [j \in 1..Len(aliases) |-> Join3(self.name, "bin", aliases[j])]]

LauncherConfig(self, tool) ==
    [destination |-> Join3(self.name, "bin", _tool_to_bin(self, tool).val),
     jar_distributions |-> _get_jar_dists(self),
     main_class |-> _tool_to_main(self, tool).val,
     build_args |-> <<"--initialize-at-build-time=com.oracle.truffle.llvm.toolchain.launchers",
                      "--gc=epsilon">> \o svm_experimental_options(<<"-H:-ParseRuntimeOptions">>),
     is_main_launcher |-> FALSE,
     default_symlinks |-> FALSE,
     links |-> LET aliases == _tool_to_aliases(self, tool).val
               IN [j \in 1..(Len(aliases) - 1) |-> Join3(self.name, "bin", aliases[j + 1])]]

LauncherConfigsResult(self) ==
    LET toolSeq == _supported_tools(self)
        bad == {i \in DOMAIN toolSeq : _tool_to_bin(self, toolSeq[i]).status # "ok"
                                          \/ _tool_to_main(self, toolSeq[i]).status # "ok"}
        firstBad == CHOOSE i \in bad : \A j \in bad : i <= j
        base == [NoCall EXCEPT !.op = "get_launcher_configs"]
    IN IF bad # {}
       THEN [base EXCEPT !.status = _tool_to_bin(self, toolSeq[firstBad]).status,
                !.msg = toolSeq[firstBad]]
       ELSE [base EXCEPT !.configs = [i \in DOMAIN toolSeq |-> LauncherConfig(self, toolSeq[i])]]

get_launcher_configs(n) ==
    /\ n \in DOMAIN objects
    /\ LET res == LauncherConfigsResult(objects[n])
       IN /\ last' = [res EXCEPT !.self = n, !.repeat = n \in DOMAIN configs_seen]
          /\ configs_seen' =
                IF res.status # "ok" \/ n \in DOMAIN configs_seen THEN configs_seen
                ELSE DictPut(configs_seen, n, res.configs)
    /\ UNCHANGED <<is_windows, env_bootstrap, jacoco, objects,
                   toolchains, commands, substitutions, roots_seen>>

----------------------------------------------------------------------------
(* The environment *)

BootstrapEnvValues == {"", "standalone"}

SetBootstrapEnv(v) ==
    /\ v # env_bootstrap
    /\ env_bootstrap' = v
    /\ UNCHANGED <<is_windows, jacoco, objects,
                   toolchains, commands, substitutions, configs_seen, roots_seen, last>>

----------------------------------------------------------------------------
(* Control returns to the caller of the operation recorded in `last` *)

Idle == last = NoCall

Return ==
    /\ ~Idle
    /\ last' = NoCall
    /\ UNCHANGED <<is_windows, env_bootstrap, jacoco, objects,
                   toolchains, commands, substitutions, configs_seen, roots_seen>>

----------------------------------------------------------------------------

EmptyDict == [k \in {} |-> 0]

Init ==
    /\ is_windows \in BOOLEAN
    /\ env_bootstrap = ""
    /\ jacoco = "off"
    /\ objects = <<>>
    /\ toolchains = EmptyDict
    /\ commands = EmptyDict
    /\ substitutions = EmptyDict
    /\ configs_seen = EmptyDict
    /\ roots_seen = EmptyDict
    /\ last = NoCall

RegisterAny ==
    /\ Idle
    /\ Len(objects) < MaxObjects
    /\ \E r \in Registrations : Register(r.name, r.cfg)

Lookup == Idle /\ \E name \in LookupNames : _get_toolchain(name)

Resolve ==
    /\ Idle
    /\ \E n \in DOMAIN objects, tool \in ToolArgs, allow_bootstrap \in BOOLEAN, in \in ToolInputs :
          get_toolchain_tool(n, tool, allow_bootstrap, in)

Dispatch ==
    /\ Idle
    /\ \E n \in DOMAIN objects :
         \E args \in DispatchArgs(objects[n]), env_jacoco \in JacocoEnvValues, rc \in ExitCodes :
            _toolchain_helper(n, args, env_jacoco, rc)

LauncherConfigs == Idle /\ \E n \in DOMAIN objects : get_launcher_configs(n)

ChangeEnv == Idle /\ \E v \in BootstrapEnvValues : SetBootstrapEnv(v)

Next ==
    \/ Lookup
    \/ Resolve
    \/ Dispatch
    \/ LauncherConfigs
    \/ ChangeEnv
    \/ Return

\* lookups on one registered descriptor: the state after the construction of a
\* ToolchainConfig at module load (lines 565-576), for any of the Registrations
InitRegistered ==
    /\ is_windows \in BOOLEAN
    /\ env_bootstrap = ""
    /\ jacoco = "off"
    /\ \E r \in Registrations :
          LET self == NewToolchainConfig(r.name, r.cfg.dist, BootstrapDist, r.cfg.tools,
                                         r.cfg.templ, r.cfg.flags)
          IN /\ objects = <<self>>
             /\ toolchains = RegistryAfter(EmptyDict, r.name, 1)
             /\ commands = DictPut(EmptyDict, self.mx_command, 1)
             /\ substitutions = DictPut(EmptyDict, r.name \o "ToolchainRoot", 1)
    /\ configs_seen = EmptyDict
    /\ roots_seen = EmptyDict
    /\ last = NoCall

Spec == InitRegistered /\ [][Next]_vars

RegistryNext ==
    \/ RegisterAny
    \/ Lookup
    \/ Return

RegistrySpec == Init /\ [][RegistryNext]_vars

----------------------------------------------------------------------------
(* Properties of registration (checked under RegistrySpec) *)

\* the object the operation in progress acts on
Self == objects[last.self]

\* the first object constructed under a name
FirstNamed(name) ==
    CHOOSE i \in DOMAIN objects :
        objects[i].name = name /\ \A j \in DOMAIN objects : objects[j].name = name => i <= j

DuplicateAborted == last.op = "register" /\ last.status = "abort"

\* C1: when a registration under an already registered name fails, the
\* '<name>-toolchain' command and the '<name>ToolchainRoot' substitution still
\* refer to the first descriptor registered under that name.
C1_NoPartialRegistration ==
    DuplicateAborted =>
        /\ commands[last.name \o "-toolchain"] = toolchains[last.name]
        /\ substitutions[last.name \o "ToolchainRoot"] = toolchains[last.name]

\* C6: the registry maps every name for which a ToolchainConfig was constructed
\* to the first object constructed under that name, a registration under an
\* existing name aborts, and _get_toolchain returns that first object for a
\* registered name and aborts for an unregistered one.
C6_RegistryKeepsFirst ==
    /\ DOMAIN toolchains = {objects[i].name : i \in DOMAIN objects}
    /\ \A name \in DOMAIN toolchains : toolchains[name] = FirstNamed(name)
    /\ last.op = "register" =>
          (last.status = "abort") = (FirstNamed(last.name) # last.self)
    /\ last.op = "_get_toolchain" =>
          IF \E i \in DOMAIN objects : objects[i].name = last.name
          THEN last.status = "ok" /\ last.self = FirstNamed(last.name)
          ELSE last.status = "abort" /\ last.self = 0

\* a lookup of a name under which a second, different descriptor was rejected
C6_Witness ==
    /\ last.op = "_get_toolchain"
    /\ last.status = "ok"
    /\ \E i \in DOMAIN objects :
          i > last.self /\ objects[i].name = last.name /\ objects[i] # objects[last.self]

----------------------------------------------------------------------------
(* Properties of get_toolchain_tool (checked under Spec) *)

Resolved == last.op = "get_toolchain_tool"

InRoleMap(self, tool) == tool \in Keys(self.tools)

IsBinutil(tool) == tool \in {Upper(_llvm_tool_map[i]) : i \in DOMAIN _llvm_tool_map}

HasAliases(self, tool) == tool \in Keys(self.tool_map) /\ Get(self.tool_map, tool) # <<>>

\* <bootstrapRoot>/bin/<primary alias of the role>
PrimaryPath(self, tool) == Join3(bootstrap_provider(self), "bin", Get(self.tool_map, tool)[1])

\* C3 as stated: with no execution mode selected, get_toolchain_tool(role)
\* returns <bootstrapRoot>/bin/<primary alias> for every role of the role map,
\* on every platform and whatever the file system holds, and runs no standalone.
C3_AlwaysPrimaryPath ==
    (Resolved /\ last.mode = "None" /\ InRoleMap(Self, last.tool)) =>
        /\ last.status = "ok"
        /\ last.ret = PrimaryPath(Self, last.tool)
        /\ last.runs = <<>>

\* C3 amended: with no execution mode selected, get_toolchain_tool(role), for
\* every role of the role map that has a non-empty alias list, runs no
\* standalone and returns <bootstrapRoot>/bin/<primary alias>, except on Windows
\* when that path ends in ".exe" and does not exist: then the same path with
\* ".exe" replaced by ".cmd" is returned.
C3_PrimaryPathOrCmd ==
    (Resolved /\ last.mode = "None" /\ InRoleMap(Self, last.tool)
       /\ HasAliases(Self, last.tool)) =>
        LET path == PrimaryPath(Self, last.tool)
        IN /\ last.status = "ok"
           /\ last.runs = <<>>
           /\ last.lli_exists = "unread"
           /\ IF is_windows /\ EndsWith(path, ".exe") /\ last.ret_exists = "no"
              THEN last.ret = SubSeq(path, 1, Len(path) - Len(".exe")) \o ".cmd"
              ELSE last.ret = path

\* the ".cmd" substitution happened for a role of the role map
C3_Witness ==
    /\ Resolved /\ last.mode = "None" /\ last.status = "ok"
    /\ InRoleMap(Self, last.tool)
    /\ is_windows /\ last.ret_exists = "no"
    /\ EndsWith(last.ret, ".cmd")
    /\ env_bootstrap # ""

Unsupported(self, tool) == ~InRoleMap(self, tool) /\ ~IsBinutil(tool)

\* C4 as stated: get_toolchain_tool(role) fails fatally, returning no path, for
\* every role that is neither in the role map nor a binary-utility sub-tool, in
\* every execution mode, whether or not the standalone binary is present.
C4_UnsupportedAlwaysFails ==
    (Resolved /\ Unsupported(Self, last.tool)) => (last.status = "abort" /\ last.ret = "")

\* C4 amended: for a role that is neither in the role map nor a binary-utility
\* sub-tool, get_toolchain_tool fails fatally, without running anything,
\* whenever the standalone is not queried: with no execution mode, or with a
\* mode selected and the standalone binary missing (whatever allow_bootstrap
\* is).  With a mode selected and the standalone binary present the role is
\* passed to the standalone unchecked: the call returns the standalone's
\* trimmed output, and fails only if the standalone exits with a non-zero code.
C4_UnsupportedFailsUnlessQueried ==
    (Resolved /\ Unsupported(Self, last.tool)) =>
        IF last.mode # "None" /\ last.lli_exists = "yes"
        THEN /\ Len(last.runs) = 1
             /\ last.runs[1].cmd[Len(last.runs[1].cmd)] = last.tool
             /\ IF last.runs[1].rc = 0
                THEN last.status = "ok" /\ last.ret = Strip(last.runs[1].out)
                ELSE last.status = "abort" /\ last.ret = ""
        ELSE /\ last.status = "abort"
             /\ last.ret = ""
             /\ last.runs = <<>>
             /\ last.provider_calls = 0

\* an unsupported role rejected after the fallback to the bootstrap toolchain
C4_Witness ==
    /\ Resolved /\ Unsupported(Self, last.tool)
    /\ last.mode = "native" /\ last.lli_exists = "no" /\ last.allow_bootstrap
    /\ last.status = "abort"
    /\ last.msg = "The managed toolchain (defined by sulong-managed:SULONG_MANAGED_LAUNCHERS) does not support tool 'XX'"

\* C10: with a mode selected and the standalone binary missing,
\* get_toolchain_tool aborts without calling the bootstrap-root provider when
\* allow_bootstrap is false, and with allow_bootstrap true it gives the result
\* the same call gives with no mode selected; when the standalone binary exists
\* the bootstrap toolchain is never consulted.
C10_FallbackOnlyWhenAllowed ==
    (Resolved /\ last.mode # "None") =>
        /\ last.lli_exists \in {"yes", "no"}
        /\ (last.lli_exists = "no" /\ ~last.allow_bootstrap) =>
              /\ last.status = "abort"
              /\ last.ret = ""
              /\ last.provider_calls = 0
              /\ last.ret_exists = "unread"
        /\ (last.lli_exists = "no" /\ last.allow_bootstrap) =>
              \E in \in ToolInputs :
                 /\ in.mode = "None"
                 /\ last.ret_exists # "unread" => last.ret_exists = YesNo(in.ret_exists)
                 /\ [last EXCEPT !.mode = "None", !.lli_exists = "unread"]
                      = [GetToolchainToolResult(Self, last.tool, last.allow_bootstrap, in)
                           EXCEPT !.self = last.self]
        /\ last.lli_exists = "yes" =>
              /\ last.provider_calls = 0
              /\ last.ret_exists = "unread"
              /\ Len(last.runs) = 1

\* the fallback taken for a role of the role map, standalone selected but missing
C10_Witness ==
    /\ Resolved /\ last.mode = "jvm" /\ last.lli_exists = "no" /\ last.allow_bootstrap
    /\ last.status = "ok" /\ last.provider_calls = 1
    /\ InRoleMap(Self, last.tool)
    /\ last.ret = PrimaryPath(Self, last.tool)

----------------------------------------------------------------------------
(* Properties of the alias tables (at registration, under RegistrySpec) and of
   dispatch (under Spec) *)

\* every alias occurrence of the alias table, role by role
AliasSeq(self) == Flatten([i \in DOMAIN self.tool_map |-> self.tool_map[i][2]])

Distinct(seq) == \A i, j \in DOMAIN seq : i # j => seq[i] # seq[j]

\* the aliases dispatch offers: those of the roles of the role map
RoleMapAliases(self) ==
    UNION {Range(self.tool_map[i][2]) :
              i \in {k \in DOMAIN self.tool_map : InRoleMap(self, self.tool_map[k][1])}}

\* the data-model invariants of a descriptor: every role of the role map has
\* aliases, and no alias is listed twice
WellFormed(self) ==
    /\ \A tool \in Keys(self.tools) : HasAliases(self, tool)
    /\ Distinct(AliasSeq(self))

\* a registration that passed no tool_map_templ
RegisteredDefault == last.op = "register" /\ last.templ = <<>>

Dispatched == last.op = "dispatch"

\* the entry point of a spawned launcher command that forwards nargs arguments
LaunchedMain(run, nargs) == run.cmd[Len(run.cmd) - nargs]

\* C2: for a descriptor with distinct aliases, every role R of the role map and
\* every alias a of R, on either platform, dispatch invoked with a finds R
\* under a in the PathMap and spawns R's main entry.
C2_AliasDispatchesToRole ==
    (Dispatched /\ WellFormed(Self)) =>
        \A R \in Keys(Self.tools) : \A a \in Range(Get(Self.tool_map, R)) :
            last.argv \in {<<a>>, <<a, "-v">>} =>
                /\ a \in DOMAIN Self.path_map
                /\ Self.path_map[a] = R
                /\ Len(last.runs) = 1
                /\ LaunchedMain(last.runs[1], Len(last.argv) - 1) = Get(Self.tools, R)

\* C7: dispatch spawns a process if and only if the invoked alias is an alias
\* of a role of the role map; for any other string it fails with a non-zero
\* exit, offers exactly those aliases as choices and spawns nothing.
C7_AcceptsExactlyAliases ==
    (Dispatched /\ WellFormed(Self) /\ last.argv # <<>> /\ ~IsOption(last.argv[1])) =>
        IF last.argv[1] \in RoleMapAliases(Self)
        THEN Len(last.runs) = 1
        ELSE /\ last.status = "usage"
             /\ last.rc # 0
             /\ Range(last.choices) = RoleMapAliases(Self)
             /\ last.runs = <<>>

IsNativeToolchain(self) ==
    /\ self.name = "native"
    /\ self.tools = NativeTools
    /\ Get(self.tool_map, "CC") =
          [i \in 1..5 |-> exe_suffix(<<"graalvm-native-clang", "graalvm-clang", "clang", "cc", "gcc">>[i])]

ClangV == <<"clang", "-v">>

\* C9 as stated: for the descriptor "native", dispatch(["clang", "-v"]) launches
\* <bootstrapRoot>/bin/graalvm-native-clang (platform-suffixed), followed by
\* "-v" as the only forwarded argument.
C9_ClangLaunchesBootstrapBinary ==
    (Dispatched /\ IsNativeToolchain(Self) /\ last.argv = ClangV) =>
        /\ Len(last.runs) = 1
        /\ \E i \in DOMAIN last.runs[1].cmd :
              /\ last.runs[1].cmd[i] =
                    Join3(bootstrap_provider(Self), "bin", exe_suffix("graalvm-native-clang"))
              /\ SubSeq(last.runs[1].cmd, i + 1, Len(last.runs[1].cmd)) = <<"-v">>

\* C9 amended: for the descriptor "native", dispatch(["clang", "-v"]) resolves
\* no bootstrap path.  Where the executable suffix is empty it spawns the Java
\* launcher with -Dorg.graalvm.launcher.executablename=clang and the main entry
\* of role CC, followed by "-v" as the only forwarded argument; on Windows the
\* unsuffixed "clang" is not among the choices and dispatch fails with a usage
\* error, spawning nothing.
C9_ClangLaunchesClangMain ==
    (Dispatched /\ IsNativeToolchain(Self) /\ last.argv = ClangV) =>
        /\ last.provider_calls = 0
        /\ IF is_windows
           THEN last.status = "usage" /\ last.rc = 2 /\ last.runs = <<>>
           ELSE /\ Len(last.runs) = 1
                /\ LET cmd == last.runs[1].cmd
                   IN /\ SubSeq(cmd, Len(cmd) - 2, Len(cmd)) =
                            <<"-Dorg.graalvm.launcher.executablename=clang",
                              "com.oracle.truffle.llvm.toolchain.launchers.Clang", "-v">>
                      /\ \A i \in DOMAIN cmd :
                            cmd[i] # Join3(bootstrap_provider(Self), "bin", "graalvm-native-clang")

\* "clang -v" dispatched to the Clang launcher and run to a zero exit
C9_Witness ==
    /\ Dispatched /\ IsNativeToolchain(Self) /\ last.argv = ClangV
    /\ ~is_windows /\ last.status = "ok" /\ Len(last.runs) = 1
    /\ last.command = "clang"

----------------------------------------------------------------------------
(* Properties of get_launcher_configs (checked under Spec) *)

Configured == last.op = "get_launcher_configs"

Destinations(configs) == [i \in DOMAIN configs |-> configs[i].destination]

\* C8 as stated: for any descriptor, get_launcher_configs yields one entry per
\* role of the role map, in the order of the role map, with pairwise distinct
\* destinations, and a call returns what the first call on the object returned.
C8_OneEntryPerRole ==
    Configured =>
        /\ last.status = "ok"
        /\ Len(last.configs) = Len(Self.tools)
        /\ \A i \in DOMAIN last.configs : last.configs[i].main_class = Self.tools[i][2]
        /\ Distinct(Destinations(last.configs))
        /\ last.configs = configs_seen[last.self]

\* the primary aliases of the roles of the role map, in role-map order
PrimaryAliases(self) == [i \in DOMAIN self.tools |-> Get(self.tool_map, self.tools[i][1])[1]]

\* C8 amended: for any descriptor whose role-map roles all have a non-empty
\* alias list and pairwise distinct primary aliases (every descriptor built
\* from the default table with roles of that table), get_launcher_configs
\* yields one entry per role of the role map, in the order of the role map,
\* with pairwise distinct destinations, and a call returns what the first call
\* on the object returned.
C8_OneEntryPerAliasedRole ==
    (Configured /\ (\A tool \in Keys(Self.tools) : HasAliases(Self, tool))
        /\ Distinct(PrimaryAliases(Self))) =>
        /\ last.status = "ok"
        /\ Len(last.configs) = Len(Self.tools)
        /\ \A i \in DOMAIN last.configs :
              /\ last.configs[i].main_class = Self.tools[i][2]
              /\ last.configs[i].destination = Join3(Self.name, "bin", PrimaryAliases(Self)[i])
        /\ Distinct(Destinations(last.configs))
        /\ last.configs = configs_seen[last.self]

\* a repeated call on a descriptor with the roles CC and CXX
C8_Witness ==
    /\ Configured /\ last.status = "ok"
    /\ KeySeq(Self.tools) = <<"CC", "CXX">>
    /\ Len(last.configs) = 2
    /\ Distinct(Destinations(last.configs))
    /\ last.repeat


----------------------------------------------------------------------------
(* Properties of the standalone query of get_toolchain_tool (checked under Spec) *)

\* the call found the standalone binary and ran it
Queried == Resolved /\ last.mode # "None" /\ last.lli_exists = "yes"

\* C11: with an explicit mode and the standalone binary present, the binary is
\* run once with select_flags, '--print-toolchain-api-tool' and the role, and
\* a path is returned only when the trimmed output is non-empty, the path
\* being that trimmed output; an empty or all-whitespace output is never
\* returned as a resolved path.
C11_TrimmedNonEmptyOutput ==
    Queried =>
        /\ Len(last.runs) = 1
        /\ SubSeq(last.runs[1].cmd, 2, Len(last.runs[1].cmd))
             = Self.select_flags \o <<"--print-toolchain-api-tool", last.tool>>
        /\ last.status = "ok" =>
             /\ last.ret = Strip(last.runs[1].out)
             /\ last.ret # ""

----------------------------------------------------------------------------
(* Properties of the binary-utility sub-tools (checked under Spec) *)

\* the call went on to the bootstrap toolchain (lines 528-538)
ReachedTier2 ==
    /\ Resolved
    /\ last.mode = "None" \/ (last.lli_exists = "no" /\ last.allow_bootstrap)

\* the path Tier 2 gives a role through the alias table, ".cmd" fallback included
AliasTablePath(self, tool) ==
    LET path == PrimaryPath(self, tool)
    IN IF is_windows /\ EndsWith(path, ".exe") /\ last.ret_exists = "no"
       THEN SubSeq(path, 1, Len(path) - Len(".exe")) \o ".cmd"
       ELSE path

\* C12 as stated: when tier 2 is reached, a binary-utility sub-tool name that
\* is not a key of the role map resolves to <bootstrapRoot>/bin/<lowercased
\* name>, with no file-system test; one that is a key of the role map resolves
\* through the alias table.
C12_BinutilPlainName ==
    (ReachedTier2 /\ IsBinutil(last.tool)) =>
        IF InRoleMap(Self, last.tool)
        THEN HasAliases(Self, last.tool) =>
                (last.status = "ok" /\ last.ret = AliasTablePath(Self, last.tool))
        ELSE /\ last.status = "ok"
             /\ last.ret = Join3(bootstrap_provider(Self), "bin", Lower(last.tool))
             /\ last.ret_exists = "unread"

\* C12 amended: when tier 2 is reached, a binary-utility sub-tool name that is
\* not a key of the role map resolves, whatever the alias table holds and with
\* no file-system test, to <bootstrapRoot>/bin/<lowercased name> with the
\* platform's command suffix appended (".cmd" on Windows, nothing elsewhere);
\* one that is a key of the role map is resolved through the alias table: to
\* the path of its primary alias (".cmd" for a missing ".exe" on Windows), or
\* to a KeyError when the alias table has no entry for it.
C12_BinutilCmdName ==
    (ReachedTier2 /\ IsBinutil(last.tool)) =>
        /\ last.provider_calls = 1
        /\ last.runs = <<>>
        /\ IF InRoleMap(Self, last.tool)
           THEN IF HasAliases(Self, last.tool)
                THEN last.status = "ok" /\ last.ret = AliasTablePath(Self, last.tool)
                ELSE last.status = "KeyError" /\ last.ret = ""
           ELSE /\ last.status = "ok"
                /\ last.ret = Join3(bootstrap_provider(Self), "bin",
                                    IF is_windows THEN Lower(last.tool) \o ".cmd"
                                    ELSE Lower(last.tool))
                /\ last.ret_exists = "unread"

\* on Windows, READELF resolved directly although the alias table has no
\* entry for it, after the fallback from a missing standalone
C12_Witness ==
    /\ ReachedTier2 /\ last.mode = "jvm"
    /\ last.tool = "READELF" /\ ~InRoleMap(Self, last.tool)
    /\ "READELF" \notin Keys(Self.tool_map)
    /\ is_windows /\ env_bootstrap = "standalone"
    /\ last.status = "ok"
    /\ last.ret = "standalone\\lib\\sulong\\native\\bin\\readelf.cmd"

\* AR as a key of the role map, resolved through the alias table
C12_WitnessRole ==
    /\ ReachedTier2 /\ last.tool = "AR" /\ InRoleMap(Self, "AR")
    /\ last.status = "ok" /\ ~is_windows
    /\ last.ret = "mxbuild/sulong:SULONG_BOOTSTRAP_TOOLCHAIN/bin/graalvm-managed-ar"

----------------------------------------------------------------------------
(* Properties of the coverage state in dispatch (checked under Spec) *)

\* C13: a dispatch writes the coverage state (mx_gate._jacoco) at most once,
\* only when JACOCO is in the environment and with exactly its value, after
\* the alias was validated and before the process is spawned, which sees the
\* written value; when JACOCO is absent or the alias is unknown the coverage
\* state is left unchanged.
C13_CoverageWrittenBeforeSpawn ==
    [][(last.op = "none" /\ last'.op = "dispatch") =>
          /\ Len(last'.jacoco_writes) <= 1
          /\ last'.jacoco_writes # <<>> =>
                /\ last'.jacoco_writes = last'.env_jacoco
                /\ jacoco' = last'.env_jacoco[1]
                /\ last'.command \in Range(last'.choices)
                /\ Len(last'.runs) = 1
                /\ last'.runs[1].jacoco = last'.env_jacoco[1]
          /\ last'.jacoco_writes = <<>> => jacoco' = jacoco
          /\ (last'.env_jacoco = <<>> \/ last'.command \notin Range(last'.choices)) =>
                /\ last'.jacoco_writes = <<>>
                /\ jacoco' = jacoco
          /\ last'.runs # <<>> =>
                /\ last'.runs[1].jacoco = jacoco'
                /\ last'.jacoco_writes = last'.env_jacoco
      ]_vars

\* a dispatch that wrote the empty JACOCO value over the coverage state before
\* it spawned the launcher
C13_Witness ==
    /\ Dispatched /\ last.status = "ok"
    /\ last.env_jacoco = <<"">> /\ last.jacoco_writes = <<"">>
    /\ jacoco = ""
    /\ Len(last.runs) = 1 /\ last.runs[1].jacoco = ""

----------------------------------------------------------------------------
(* Properties of the entries of get_launcher_configs (checked under Spec) *)

\* the aliases of the i-th role of the role map
RoleAliases(self, i) == Get(self.tool_map, self.tools[i][1])

\* the aliases of the roles of the role map, role by role in role-map order
RoleMapAliasSeq(self) == Flatten([i \in DOMAIN self.tools |-> RoleAliases(self, i)])

\* the entry of the i-th role: destination, main entry and links as C14 states them
EntryOfRole(self, configs, i) ==
    LET aliases == RoleAliases(self, i)
    IN /\ configs[i].destination = Join3(self.name, "bin", aliases[1])
       /\ configs[i].main_class = self.tools[i][2]
       /\ configs[i].links
            = [j \in 1..(Len(aliases) - 1) |-> Join3(self.name, "bin", aliases[j + 1])]

\* no link list holds the destination of an entry
LinksAvoidDestinations(configs) ==
    \A i, k \in DOMAIN configs :
        configs[k].destination \notin Range(configs[i].links)

\* C14 as stated: in every result of get_launcher_configs the entry of role R
\* has destination <name>/bin/<first alias of R>, main entry R's entry symbol
\* and as links exactly R's aliases from the second onward, in order, each
\* prefixed with <name>/bin/; and no link list contains the entry's own
\* destination or the destination of another role's entry.
C14_LinksNeverDestinations ==
    (Configured /\ last.status = "ok") =>
        /\ Len(last.configs) = Len(Self.tools)
        /\ \A i \in DOMAIN last.configs : EntryOfRole(Self, last.configs, i)
        /\ LinksAvoidDestinations(last.configs)

\* C14 amended: destination, main entry and link list of every entry are as
\* stated; no link list contains a destination provided the aliases of the
\* roles of the role map are pairwise distinct (as in every descriptor built
\* from the default table), which nothing checks for an overriding table.
C14_LinksAvoidDestinationsIfDistinct ==
    (Configured /\ last.status = "ok") =>
        /\ Len(last.configs) = Len(Self.tools)
        /\ \A i \in DOMAIN last.configs : EntryOfRole(Self, last.configs, i)
        /\ Distinct(RoleMapAliasSeq(Self)) => LinksAvoidDestinations(last.configs)

\* the six entries of the "native" descriptor on Windows, BINUTIL with its
\* sixteen links
C14_Witness ==
    /\ Configured /\ last.status = "ok" /\ is_windows
    /\ Len(last.configs) = 6
    /\ Distinct(RoleMapAliasSeq(Self))
    /\ last.configs[6].destination = "native\\bin\\graalvm-native-binutil.exe"
    /\ Len(last.configs[6].links) = 16
    /\ last.configs[6].links[16] = "native\\bin\\llvm-strip.exe"
    /\ last.configs[1].links = <<"native\\bin\\graalvm-clang.exe", "native\\bin\\clang.exe",
                                 "native\\bin\\cc.exe", "native\\bin\\gcc.exe">>

----------------------------------------------------------------------------
(* Frame of the lookups (checked under Spec) *)

LookupOps == {"get_toolchain_tool", "dispatch", "get_launcher_configs"}

\* the bootstrap root of a descriptor under a value of SULONG_BOOTSTRAP_STANDALONE
RootUnder(env, self) ==
    IF env # "" THEN Join2(Join3(env, "lib", "sulong"), self.name)
    ELSE Join2("mxbuild", self.bootstrap_dist)

\* C15: a get_toolchain_tool, dispatch or get_launcher_configs call, successful
\* or failing, leaves the registry and every descriptor (name, distributions,
\* role map, alias table, PathMap, select flags) unchanged; and every tier-2
\* lookup of a supported tool calls the bootstrap-root provider, so its result
\* lies under the root that the current value of SULONG_BOOTSTRAP_STANDALONE
\* gives, whatever root an earlier lookup on the descriptor used.
C15_LookupsKeepDescriptors ==
    [][(last.op = "none" /\ last'.op \in LookupOps) =>
          /\ objects' = objects
          /\ toolchains' = toolchains
          /\ commands' = commands
          /\ substitutions' = substitutions
          /\ env_bootstrap' = env_bootstrap
          /\ last'.op = "get_toolchain_tool" =>
               LET self == objects[last'.self]
                   tier2 == last'.mode = "None"
                              \/ (last'.lli_exists = "no" /\ last'.allow_bootstrap)
                   root == RootUnder(env_bootstrap, self)
               IN /\ last'.provider_calls
                       = IF tier2 /\ (InRoleMap(self, last'.tool) \/ IsBinutil(last'.tool))
                         THEN 1 ELSE 0
                  /\ (last'.provider_calls = 1 /\ last'.status = "ok") =>
                        StartsWith(last'.ret, Join2(Join2(root, "bin"), ""))
                  /\ (last'.provider_calls = 1 /\ last'.self \notin DOMAIN roots_seen) =>
                        roots_seen'[last'.self] = root
      ]_vars

\* a tier-2 lookup under the standalone root on a descriptor whose first
\* tier-2 lookup ran before SULONG_BOOTSTRAP_STANDALONE was set
C15_Witness ==
    /\ Resolved /\ last.status = "ok" /\ last.provider_calls = 1
    /\ last.self \in DOMAIN roots_seen
    /\ roots_seen[last.self] = "mxbuild/sulong:SULONG_BOOTSTRAP_TOOLCHAIN"
    /\ env_bootstrap = "standalone"
    /\ last.tool = "CC"
    /\ last.ret = "standalone/lib/sulong/native/bin/graalvm-native-clang"
    /\ objects[last.self].name = "native"

====
